---- MODULE Spec2Model ----
(***************************************************************************)
(* Scalar multiplication schedules of edwards25519 (scalarmult.go).        *)
(*                                                                         *)
(* The group is modelled as the cyclic group Z_GroupOrder, a point being   *)
(* the group element it denotes together with the coordinate system it is  *)
(* held in.  Field arithmetic, the group law, the digit encoders and the   *)
(* lookup tables live outside scalarmult.go; they are modelled from their  *)
(* documented behaviour.  The five schedules are modelled statement by     *)
(* statement.                                                              *)
(***************************************************************************)
EXTENDS Integers, Sequences, FiniteSets, TLC

\* ------------------------------------------------------------------ bounds
\* Order of the model group (the generator is the element 1).
GroupOrder == 11
\* Input points hold one of the elements 0 .. MaxPoint, or were never assigned.
MaxPoint == 2
\* Longest scalar / point slice handed to the multi-term operations.
MaxTerms == 2

\* ------------------------------------------------------- program constants
\* Number of signed radix-16 digits of a scalar.
NumDigits == 64
\* Number of positions of a non-adjacent form.
NafLen == 256
\* Window widths of the two non-adjacent forms.
NafWidthA == 5
NafWidthB == 8

\* --------------------------------------------------------- group elements
\* A value of one of the coordinate types: the coordinate system rep it is
\* held in and the group element g it denotes.  ok = FALSE is the value whose
\* coordinates are all zero (a Point that was never assigned); it denotes no
\* group element and the group-law formulas map it to itself.
Elem(rep, ok, g) == [rep |-> rep, ok |-> ok, g |-> IF ok THEN g % GroupOrder ELSE 0]

ZeroPoint == Elem("P3", FALSE, 0)
NewIdentityPoint == Elem("P3", TRUE, 0)
NewGeneratorPoint == Elem("P3", TRUE, 1)

\* projP2.Zero
P2_Zero == Elem("P2", TRUE, 0)
\* projP2.FromP3, projP2.FromP1xP1, Point.fromP1xP1, Point.fromP2
P2_FromP3(p) == [p EXCEPT !.rep = "P2"]
P2_FromP1xP1(p) == [p EXCEPT !.rep = "P2"]
Point_fromP1xP1(p) == [p EXCEPT !.rep = "P3"]
Point_fromP2(p) == [p EXCEPT !.rep = "P3"]
\* projCached.FromP3, affineCached.FromP3
Cached_FromP3(p) == [p EXCEPT !.rep = "cached"]
Affine_FromP3(p) == [p EXCEPT !.rep = "affine"]

\* projP1xP1.Add / Sub (Point, projCached), AddAffine / SubAffine (Point,
\* affineCached), Double (projP2)
Add(p, q) ==
    [rep |-> "P1xP1", ok |-> p.ok /\ q.ok,
     g |-> IF p.ok /\ q.ok THEN (p.g + q.g) % GroupOrder ELSE 0]
Sub(p, q) ==
    [rep |-> "P1xP1", ok |-> p.ok /\ q.ok,
     g |-> IF p.ok /\ q.ok THEN (p.g + GroupOrder - q.g) % GroupOrder ELSE 0]
AddAffine(p, q) == Add(p, q)
SubAffine(p, q) == Sub(p, q)
Double(p) == [rep |-> "P1xP1", ok |-> p.ok, g |-> (2 * p.g) % GroupOrder]
\* conditional negation of a cached value
CondNeg(p, neg) == IF neg THEN [p EXCEPT !.g = (GroupOrder - p.g) % GroupOrder] ELSE p

\* checkInitialized(points...): panics when some point is the zero Point.
checkInitialized(points) == \A i \in 1..Len(points) : points[i] # ZeroPoint

\* ----------------------------------------------------------------- scalars
\* A scalar is its 32 bytes, least significant first.  ScalarOf(lo, mid, hi)
\* has low byte lo, top byte hi and every byte between equal to mid.
ScalarOf(lo, mid, hi) == [i \in 1..32 |-> IF i = 1 THEN lo ELSE IF i = 32 THEN hi ELSE mid]

\* Reduced scalars (below l = 2^252 + 27742317777372353535851937790883648493):
\* 0, 1, 2, 0x98, 0x0B5D...5DB5, 2^252 - 1 and 2^252 + 3.
Scalars ==
    { ScalarOf(0, 0, 0), ScalarOf(1, 0, 0), ScalarOf(2, 0, 0), ScalarOf(152, 0, 0),
      ScalarOf(181, 93, 11), ScalarOf(255, 255, 15), ScalarOf(3, 0, 16) }
\* The scalars handed to the multi-term operations.
MultiScalars ==
    { ScalarOf(0, 0, 0), ScalarOf(181, 93, 11) }

\* Scalar.signedRadix16: the base-16 digits, then from the least significant
\* digit upward a digit above 8 gives 16 to its neighbour.
RecenterStep(st) ==
    LET carry == IF st.digits[st.i] > 8 THEN 1 ELSE 0
    IN  [i |-> st.i + 1,
         digits |-> [st.digits EXCEPT ![st.i] = @ - 16 * carry, ![st.i + 1] = @ + carry]]

\* At most k iterations of "for i := 0; i < 63; i++".
RECURSIVE Recenter(_, _)
Recenter(st, k) ==
    IF k = 0 \/ st.i >= NumDigits - 1 THEN st
    ELSE IF k = 1 THEN RecenterStep(st)
    ELSE Recenter(Recenter(st, k \div 2), k - (k \div 2))

signedRadix16(s) ==
    Recenter([i |-> 0,
              digits |-> [i \in 0..(NumDigits - 1) |->
                            IF i % 2 = 0 THEN s[(i \div 2) + 1] % 16
                            ELSE s[(i \div 2) + 1] \div 16]],
             NumDigits).digits

\* Bit k of a scalar, and the w bits from position pos upward.
Bit(s, k) == IF k >= NafLen THEN 0 ELSE (s[(k \div 8) + 1] \div (2 ^ (k % 8))) % 2

RECURSIVE WindowBits(_, _, _)
WindowBits(s, pos, w) == IF w = 0 THEN 0 ELSE Bit(s, pos) + 2 * WindowBits(s, pos + 1, w - 1)

\* One iteration of Scalar.nonAdjacentForm(w): an even window records nothing
\* and advances one bit; an odd window is recorded centred and advances w.
NafStep(st, s, w) ==
    LET window == st.carry + WindowBits(s, st.pos, w)
    IN  IF window % 2 = 0 THEN [st EXCEPT !.pos = @ + 1]
        ELSE IF window < 2 ^ (w - 1)
             THEN [pos |-> st.pos + w, carry |-> 0, naf |-> [st.naf EXCEPT ![st.pos] = window]]
             ELSE [pos |-> st.pos + w, carry |-> 1,
                   naf |-> [st.naf EXCEPT ![st.pos] = window - 2 ^ w]]

\* At most k iterations of "for pos < 256".
RECURSIVE NafLoop(_, _, _, _)
NafLoop(st, s, w, k) ==
    IF k = 0 \/ st.pos >= NafLen THEN st
    ELSE IF k = 1 THEN NafStep(st, s, w)
    ELSE NafLoop(NafLoop(st, s, w, k \div 2), s, w, k - (k \div 2))

nonAdjacentForm(s, w) ==
    NafLoop([pos |-> 0, carry |-> 0, naf |-> [i \in 0..(NafLen - 1) |-> 0]], s, w, NafLen).naf

\* The digit sequences of the scalars in use, computed once.
Radix16Of == [s \in Scalars |-> signedRadix16(s)]
Naf5Of == [s \in Scalars |-> nonAdjacentForm(s, NafWidthA)]
Naf8Of == [s \in Scalars |-> nonAdjacentForm(s, NafWidthB)]

\* ------------------------------------------------------------ lookup tables
\* projLookupTable.FromP3: the multiples 1q .. 8q, each from the one below.
RECURSIVE ProjTableFill(_, _)
ProjTableFill(q, points) ==
    IF Len(points) >= 8 THEN points
    ELSE ProjTableFill(q,
            Append(points, Cached_FromP3(Point_fromP1xP1(Add(q, points[Len(points)])))))

ProjTable_FromP3(q) == ProjTableFill(q, <<Cached_FromP3(q)>>)

\* projLookupTable.SelectInto: entry |x| (the identity when x = 0), negated
\* when x < 0, every entry visited whatever x is.
ProjTable_SelectInto(table, x) ==
    LET xabs == IF x < 0 THEN -x ELSE x
    IN  CondNeg(IF xabs = 0 THEN Elem("cached", TRUE, 0) ELSE table[xabs], x < 0)

\* affineLookupTable.FromP3 and SelectInto, the same in affine cached form.
RECURSIVE AffineTableFill(_, _)
AffineTableFill(q, points) ==
    IF Len(points) >= 8 THEN points
    ELSE AffineTableFill(q,
            Append(points, Affine_FromP3(Point_fromP1xP1(AddAffine(q, points[Len(points)])))))

AffineTable_FromP3(q) == AffineTableFill(q, <<Affine_FromP3(q)>>)

AffineTable_SelectInto(table, x) ==
    LET xabs == IF x < 0 THEN -x ELSE x
    IN  CondNeg(IF xabs = 0 THEN Elem("affine", TRUE, 0) ELSE table[xabs], x < 0)

\* nafLookupTable5.FromP3: the odd multiples 1q, 3q, .. 15q.
RECURSIVE NafTable5Fill(_, _)
NafTable5Fill(q2, points) ==
    IF Len(points) >= 8 THEN points
    ELSE NafTable5Fill(q2,
            Append(points, Cached_FromP3(Point_fromP1xP1(Add(q2, points[Len(points)])))))

NafTable5_FromP3(q) ==
    NafTable5Fill(Point_fromP1xP1(Add(q, Cached_FromP3(q))), <<Cached_FromP3(q)>>)

\* nafLookupTable8.FromP3: the odd multiples 1q, 3q, .. 127q, affine cached
\* (at most k more entries).
RECURSIVE NafTable8Fill(_, _, _)
NafTable8Fill(q2, points, k) ==
    IF k = 0 \/ Len(points) >= 64 THEN points
    ELSE IF k = 1
         THEN Append(points, Affine_FromP3(Point_fromP1xP1(AddAffine(q2, points[Len(points)]))))
         ELSE NafTable8Fill(q2, NafTable8Fill(q2, points, k \div 2), k - (k \div 2))

NafTable8_FromP3(q) ==
    NafTable8Fill(Point_fromP1xP1(Add(q, Cached_FromP3(q))), <<Affine_FromP3(q)>>, 64)

\* nafLookupTable5.SelectInto / nafLookupTable8.SelectInto: entry x/2 of the
\* table, x odd and positive, by direct indexing.
NafTable_SelectInto(table, x) == table[(x \div 2) + 1]

\* p doubled, and p times 256.
DoublePoint(p) == Point_fromP1xP1(Double(P2_FromP3(p)))
Times256(p) ==
    LET p4 == DoublePoint(DoublePoint(p))
        p16 == DoublePoint(DoublePoint(p4))
        p64 == DoublePoint(DoublePoint(p16))
    IN  DoublePoint(DoublePoint(p64))

\* basepointTable: entry i is the table of 16^(2i) * B, i = 0 .. 31 (at most
\* k more entries).
BasepointTableStep(st) ==
    [p |-> Times256(st.p), tables |-> Append(st.tables, AffineTable_FromP3(st.p))]

RECURSIVE BasepointTableFill(_, _)
BasepointTableFill(st, k) ==
    IF k = 0 \/ Len(st.tables) >= NumDigits \div 2 THEN st
    ELSE IF k = 1 THEN BasepointTableStep(st)
    ELSE BasepointTableFill(BasepointTableFill(st, k \div 2), k - (k \div 2))

basepointTable ==
    BasepointTableFill([p |-> NewGeneratorPoint, tables |-> <<>>], NumDigits \div 2).tables

\* basepointNafTable: the width-8 table of the generator.
basepointNafTable == NafTable8_FromP3(NewGeneratorPoint)

\* ---------------------------------------------------------------- schedules
\* The locals of a schedule: the receiver's value v, tmp1, tmp2, the loop
\* counters i and j, and the steps taken so far (tbl, dig, naf, sel, add,
\* sub, dbl).
Locals(v, tr) ==
    [v |-> v, tmp1 |-> Elem("P1xP1", FALSE, 0), tmp2 |-> Elem("P2", FALSE, 0),
     i |-> 0, j |-> 0, tr |-> tr]

\* The sequence s repeated n times.
RECURSIVE Times(_, _)
Times(s, n) ==
    IF n = 0 THEN <<>>
    ELSE IF n = 1 THEN s
    ELSE Times(s, n \div 2) \o Times(s, n - (n \div 2))

\* tmp1 = 16 * tmp2 by four doublings; tmp2 is left at 8 * (its value).
Double4(st) ==
    LET a  == Double(st.tmp2)
        b  == Double(P2_FromP1xP1(a))
        t2 == P2_FromP1xP1(Double(P2_FromP1xP1(b)))
    IN  [st EXCEPT !.tmp1 = Double(t2), !.tmp2 = t2, !.tr = @ \o <<"dbl", "dbl", "dbl", "dbl">>]

\* --- ScalarBaseMult
\* One digit of ScalarBaseMult: select from table i/2 and add.
SBM_Accumulate(st, digits) ==
    LET multiple == AffineTable_SelectInto(basepointTable[(st.i \div 2) + 1], digits[st.i])
        tmp1 == AddAffine(st.v, multiple)
    IN  [st EXCEPT !.tmp1 = tmp1, !.v = Point_fromP1xP1(tmp1), !.i = @ + 2,
                   !.tr = @ \o <<"sel", "add">>]

\* At most k iterations of "for ; i < 64; i += 2".
RECURSIVE SBM_Loop(_, _, _)
SBM_Loop(st, digits, k) ==
    IF k = 0 \/ st.i >= NumDigits THEN st
    ELSE IF k = 1 THEN SBM_Accumulate(st, digits)
    ELSE SBM_Loop(SBM_Loop(st, digits, k \div 2), digits, k - (k \div 2))

\* Variant: only three doublings between the odd and the even digits.
SBM_Mul16_ThreeDoublings(st) ==
    LET a  == Double(P2_FromP3(st.v))
        t2 == P2_FromP1xP1(Double(P2_FromP1xP1(a)))
        t1 == Double(t2)
    IN  [st EXCEPT !.tmp1 = t1, !.tmp2 = t2, !.v = Point_fromP1xP1(t1),
                   !.tr = @ \o <<"dbl", "dbl", "dbl">>]

\* Multiply by 16.
SBM_Mul16(st) ==
    LET d == Double4([st EXCEPT !.tmp2 = P2_FromP3(st.v)])
    IN  [d EXCEPT !.v = Point_fromP1xP1(d.tmp1)]

ScalarBaseMultRun(heap, v, x) ==
    LET digits == Radix16Of[x]
        st0 == Locals(NewIdentityPoint, <<"dig">>)
        odd == SBM_Loop([st0 EXCEPT !.i = 1], digits, NumDigits)
        fin == SBM_Loop([SBM_Mul16(odd) EXCEPT !.i = 0], digits, NumDigits)
    IN  [heap |-> [heap EXCEPT ![v] = fin.v], tr |-> fin.tr]

\* --- ScalarMult
\* Variant: a zero digit is skipped instead of adding the selected identity.
SM_Step_SkipsZeroDigit(st, table, digits) ==
    LET s16 == Double4([st EXCEPT !.tmp2 = P2_FromP1xP1(st.tmp1)])
        v == Point_fromP1xP1(s16.tmp1)
    IN  IF digits[st.i] = 0 THEN [s16 EXCEPT !.v = v, !.i = @ - 1]
        ELSE [s16 EXCEPT !.v = v, !.i = @ - 1,
                         !.tmp1 = Add(v, ProjTable_SelectInto(table, digits[st.i])),
                         !.tr = @ \o <<"sel", "add">>]

\* One digit of ScalarMult below the top one: times 16, then add digit * q.
SM_Step(st, table, digits) ==
    LET s16 == Double4([st EXCEPT !.tmp2 = P2_FromP1xP1(st.tmp1)])
        v == Point_fromP1xP1(s16.tmp1)
        multiple == ProjTable_SelectInto(table, digits[st.i])
    IN  [s16 EXCEPT !.v = v, !.tmp1 = Add(v, multiple), !.i = @ - 1,
                    !.tr = @ \o <<"sel", "add">>]

\* Variant: the loop stops before digit 0: "for i := 62; i > 0; i--".
RECURSIVE SM_Loop_SkipsDigit0(_, _, _, _)
SM_Loop_SkipsDigit0(st, table, digits, k) ==
    IF k = 0 \/ st.i <= 0 THEN st
    ELSE IF k = 1 THEN SM_Step(st, table, digits)
    ELSE SM_Loop_SkipsDigit0(SM_Loop_SkipsDigit0(st, table, digits, k \div 2),
                             table, digits, k - (k \div 2))

\* At most k iterations of "for i := 62; i >= 0; i--".
RECURSIVE SM_Loop(_, _, _, _)
SM_Loop(st, table, digits, k) ==
    IF k = 0 \/ st.i < 0 THEN st
    ELSE IF k = 1 THEN SM_Step(st, table, digits)
    ELSE SM_Loop(SM_Loop(st, table, digits, k \div 2), table, digits, k - (k \div 2))

\* Variant: the table is built from q after the receiver was set to the
\* identity.
ScalarMultRun_TableAfterSet(heap, v, x, q) ==
    LET h1 == [heap EXCEPT ![v] = NewIdentityPoint]
        table == ProjTable_FromP3(h1[q])
        digits == Radix16Of[x]
        multiple == ProjTable_SelectInto(table, digits[NumDigits - 1])
        st0 == [Locals(h1[v], <<"tbl", "dig", "sel", "add">>)
                    EXCEPT !.tmp1 = Add(h1[v], multiple), !.i = NumDigits - 2]
        fin == SM_Loop(st0, table, digits, NumDigits)
    IN  [heap |-> [h1 EXCEPT ![v] = Point_fromP1xP1(fin.tmp1)], tr |-> fin.tr]

\* The table is built from q before the receiver is first written.
ScalarMultRun(heap, v, x, q) ==
    LET table == ProjTable_FromP3(heap[q])
        digits == Radix16Of[x]
        multiple == ProjTable_SelectInto(table, digits[NumDigits - 1])
        h1 == [heap EXCEPT ![v] = NewIdentityPoint]
        st0 == [Locals(h1[v], <<"tbl", "dig", "sel", "add">>)
                    EXCEPT !.tmp1 = Add(h1[v], multiple), !.i = NumDigits - 2]
        fin == SM_Loop(st0, table, digits, NumDigits)
    IN  [heap |-> [h1 EXCEPT ![v] = Point_fromP1xP1(fin.tmp1)], tr |-> fin.tr]

\* --- MultiScalarMult
\* Lookup-and-add the appropriate multiple of each input point at position i.
RECURSIVE MSM_AddAll(_, _, _)
MSM_AddAll(st, tables, digits) ==
    IF st.j > Len(tables) THEN st
    ELSE LET multiple == ProjTable_SelectInto(tables[st.j], digits[st.j][st.i])
             tmp1 == Add(st.v, multiple)
         IN  MSM_AddAll([st EXCEPT !.tmp1 = tmp1, !.v = Point_fromP1xP1(tmp1), !.j = @ + 1,
                                   !.tr = @ \o <<"sel", "add">>],
                        tables, digits)

\* One digit position: the terms' multiples added, tmp2 set up from v.
MSM_Position(st, tables, digits) ==
    LET added == MSM_AddAll([st EXCEPT !.j = 1], tables, digits)
    IN  [added EXCEPT !.tmp2 = P2_FromP3(added.v), !.i = @ - 1]

MSM_Step(st, tables, digits) ==
    LET s16 == Double4(st)
    IN  MSM_Position([s16 EXCEPT !.v = Point_fromP1xP1(s16.tmp1)], tables, digits)

\* At most k iterations of "for i := 62; i >= 0; i--".
RECURSIVE MSM_Loop(_, _, _, _)
MSM_Loop(st, tables, digits, k) ==
    IF k = 0 \/ st.i < 0 THEN st
    ELSE IF k = 1 THEN MSM_Step(st, tables, digits)
    ELSE MSM_Loop(MSM_Loop(st, tables, digits, k \div 2), tables, digits, k - (k \div 2))

\* The receiver's value on entry, which the schedule adds the top digits to.
MSM_Start(heap, v) == heap[v]

MultiScalarMultRun(heap, v, scalars, points) ==
    LET n == Len(points)
        tables == [j \in 1..n |-> ProjTable_FromP3(heap[points[j]])]
        digits == [j \in 1..n |-> Radix16Of[scalars[j]]]
        st0 == [Locals(MSM_Start(heap, v), Times(<<"tbl">>, n) \o Times(<<"dig">>, n))
                    EXCEPT !.i = NumDigits - 1]
        top == MSM_Position(st0, tables, digits)
        fin == MSM_Loop(top, tables, digits, NumDigits)
    IN  [heap |-> [heap EXCEPT ![v] = fin.v], tr |-> fin.tr]

\* --- VarTimeDoubleScalarBaseMult
\* "Find the first nonzero coefficient": the loop runs on j and leaves i.
\* At most k iterations of the search loop "for j := i; j >= 0; j--".
RECURSIVE VTD_FindFirst(_, _, _, _)
VTD_FindFirst(st, aNaf, bNaf, k) ==
    IF k = 0 \/ st.j < 0 THEN st
    ELSE IF aNaf[st.j] # 0 \/ bNaf[st.j] # 0 THEN st
    ELSE IF k = 1 THEN [st EXCEPT !.j = @ - 1]
    ELSE VTD_FindFirst(VTD_FindFirst(st, aNaf, bNaf, k \div 2), aNaf, bNaf, k - (k \div 2))

\* Variant: the multiple of a negative digit is added, not subtracted.
VT_Term_AddsNegative(st, table, d) ==
    IF d # 0
    THEN LET v == Point_fromP1xP1(st.tmp1)
         IN  [st EXCEPT !.v = v,
                        !.tmp1 = Add(v, NafTable_SelectInto(table, IF d > 0 THEN d ELSE -d)),
                        !.tr = @ \o <<"sel", "add">>]
    ELSE st

\* Add or subtract the table's multiple for a nonzero NAF digit d.
VT_Term(st, table, d) ==
    IF d > 0
    THEN LET v == Point_fromP1xP1(st.tmp1)
         IN  [st EXCEPT !.v = v, !.tmp1 = Add(v, NafTable_SelectInto(table, d)),
                        !.tr = @ \o <<"sel", "add">>]
    ELSE IF d < 0
    THEN LET v == Point_fromP1xP1(st.tmp1)
         IN  [st EXCEPT !.v = v, !.tmp1 = Sub(v, NafTable_SelectInto(table, -d)),
                        !.tr = @ \o <<"sel", "sub">>]
    ELSE st

\* Variant: the generator's multiple of a negative digit is added.
VT_TermAffine_AddsNegative(st, table, d) ==
    IF d # 0
    THEN LET v == Point_fromP1xP1(st.tmp1)
         IN  [st EXCEPT !.v = v,
                        !.tmp1 = AddAffine(v, NafTable_SelectInto(table, IF d > 0 THEN d ELSE -d)),
                        !.tr = @ \o <<"sel", "add">>]
    ELSE st

\* The same for the generator's affine table.
VT_TermAffine(st, table, d) ==
    IF d > 0
    THEN LET v == Point_fromP1xP1(st.tmp1)
         IN  [st EXCEPT !.v = v, !.tmp1 = AddAffine(v, NafTable_SelectInto(table, d)),
                        !.tr = @ \o <<"sel", "add">>]
    ELSE IF d < 0
    THEN LET v == Point_fromP1xP1(st.tmp1)
         IN  [st EXCEPT !.v = v, !.tmp1 = SubAffine(v, NafTable_SelectInto(table, -d)),
                        !.tr = @ \o <<"sel", "sub">>]
    ELSE st

VTD_Step(st, aTable, aNaf, bNaf) ==
    LET dbl == [st EXCEPT !.tmp1 = Double(st.tmp2), !.tr = Append(@, "dbl")]
        sa == VT_Term(dbl, aTable, aNaf[st.i])
        sb == VT_TermAffine(sa, basepointNafTable, bNaf[st.i])
    IN  [sb EXCEPT !.tmp2 = P2_FromP1xP1(sb.tmp1), !.i = @ - 1]

\* At most k iterations of "for ; i >= 0; i--".
RECURSIVE VTD_Loop(_, _, _, _, _)
VTD_Loop(st, aTable, aNaf, bNaf, k) ==
    IF k = 0 \/ st.i < 0 THEN st
    ELSE IF k = 1 THEN VTD_Step(st, aTable, aNaf, bNaf)
    ELSE VTD_Loop(VTD_Loop(st, aTable, aNaf, bNaf, k \div 2), aTable, aNaf, bNaf, k - (k \div 2))

VarTimeDoubleScalarBaseMultRun(heap, v, a, A, b) ==
    LET aTable == NafTable5_FromP3(heap[A])
        aNaf == Naf5Of[a]
        bNaf == Naf8Of[b]
        st0 == [Locals(heap[v], <<"tbl", "naf", "naf">>) EXCEPT !.i = NafLen - 1]
        first == VTD_FindFirst([st0 EXCEPT !.j = st0.i], aNaf, bNaf, NafLen)
        fin == VTD_Loop([first EXCEPT !.tmp2 = P2_Zero], aTable, aNaf, bNaf, NafLen)
    IN  [heap |-> [heap EXCEPT ![v] = Point_fromP2(fin.tmp2)], tr |-> fin.tr]

\* --- VarTimeMultiScalarMult
RECURSIVE VTM_Terms(_, _, _)
VTM_Terms(st, tables, nafs) ==
    IF st.j > Len(nafs) THEN st
    ELSE VTM_Terms([VT_Term(st, tables[st.j], nafs[st.j][st.i]) EXCEPT !.j = @ + 1], tables, nafs)

VTM_Step(st, tables, nafs) ==
    LET dbl == [st EXCEPT !.tmp1 = Double(st.tmp2), !.j = 1, !.tr = Append(@, "dbl")]
        sj == VTM_Terms(dbl, tables, nafs)
    IN  [sj EXCEPT !.tmp2 = P2_FromP1xP1(sj.tmp1), !.i = @ - 1]

\* At most k iterations of "for i := 255; i >= 0; i--".
RECURSIVE VTM_Loop(_, _, _, _)
VTM_Loop(st, tables, nafs, k) ==
    IF k = 0 \/ st.i < 0 THEN st
    ELSE IF k = 1 THEN VTM_Step(st, tables, nafs)
    ELSE VTM_Loop(VTM_Loop(st, tables, nafs, k \div 2), tables, nafs, k - (k \div 2))

VarTimeMultiScalarMultRun(heap, v, scalars, points) ==
    LET n == Len(points)
        tables == [j \in 1..n |-> NafTable5_FromP3(heap[points[j]])]
        nafs == [j \in 1..n |-> Naf5Of[scalars[j]]]
        st0 == [Locals(heap[v], Times(<<"tbl">>, n) \o Times(<<"naf">>, n))
                    EXCEPT !.tmp2 = P2_Zero, !.i = NafLen - 1]
        fin == VTM_Loop(st0, tables, nafs, NafLen)
    IN  [heap |-> [heap EXCEPT ![v] = Point_fromP2(fin.tmp2)], tr |-> fin.tr]

\* ------------------------------------------------------------ entry points
\* The outcome of a call: the panic raised ("none" when it returns), the
\* point objects afterwards and the steps taken.
Panic(kind, heap) == [err |-> kind, heap |-> heap, tr |-> <<>>]
Return(run) == [err |-> "none", heap |-> run.heap, tr |-> run.tr]

\* The values of the point objects a slice of references names.
Deref(heap, points) == [j \in 1..Len(points) |-> heap[points[j]]]

ScalarBaseMultCall(heap, v, x) == Return(ScalarBaseMultRun(heap, v, x))

\* Variant: ScalarMult without the check of q.
ScalarMultCall_NoCheck(heap, v, x, q) == Return(ScalarMultRun(heap, v, x, q))

ScalarMultCall(heap, v, x, q) ==
    IF ~checkInitialized(<<heap[q]>>) THEN Panic("UninitializedPoint", heap)
    ELSE Return(ScalarMultRun(heap, v, x, q))

\* Variant: the points are checked before the lengths are compared.
MultiScalarMultCall_ChecksPointsFirst(heap, v, scalars, points) ==
    IF ~checkInitialized(Deref(heap, points)) THEN Panic("UninitializedPoint", heap)
    ELSE IF Len(scalars) # Len(points) THEN Panic("LengthMismatch", heap)
    ELSE Return(MultiScalarMultRun(heap, v, scalars, points))

MultiScalarMultCall(heap, v, scalars, points) ==
    IF Len(scalars) # Len(points) THEN Panic("LengthMismatch", heap)
    ELSE IF ~checkInitialized(Deref(heap, points)) THEN Panic("UninitializedPoint", heap)
    ELSE Return(MultiScalarMultRun(heap, v, scalars, points))

VarTimeDoubleScalarBaseMultCall(heap, v, a, A, b) ==
    IF ~checkInitialized(<<heap[A]>>) THEN Panic("UninitializedPoint", heap)
    ELSE Return(VarTimeDoubleScalarBaseMultRun(heap, v, a, A, b))

VarTimeMultiScalarMultCall(heap, v, scalars, points) ==
    IF Len(scalars) # Len(points) THEN Panic("LengthMismatch", heap)
    ELSE IF ~checkInitialized(Deref(heap, points)) THEN Panic("UninitializedPoint", heap)
    ELSE Return(VarTimeMultiScalarMultRun(heap, v, scalars, points))

\* ------------------------------------------------------------ state machine
\* pts:   the value of each Point object the caller holds
\* call:  the call made (operation, receiver, arguments, pts on entry)
\* err:   the panic the call raised, "none" when it returned
\* trace: the steps the call took
VARIABLES pts, call, err, trace

vars == <<pts, call, err, trace>>

\* The caller's Point objects; receivers and point arguments refer to them.
Obj == {1, 2}

\* What a Point object may hold on entry.
PointVals == {ZeroPoint} \cup {Elem("P3", TRUE, g) : g \in 0..MaxPoint}

SeqsUpTo(S, n) == UNION {[1..k -> S] : k \in 0..n}

Init ==
    /\ pts \in [Obj -> PointVals]
    /\ call = [op |-> "none", v |-> 0, scalars |-> <<>>, points |-> <<>>, pre |-> pts]
    /\ err = "none"
    /\ trace = <<>>

Finish(op, v, scalars, points, out) ==
    /\ call.op = "none"
    /\ call' = [op |-> op, v |-> v, scalars |-> scalars, points |-> points, pre |-> pts]
    /\ pts' = out.heap
    /\ err' = out.err
    /\ trace' = out.tr

ScalarBaseMult(v, x) ==
    Finish("ScalarBaseMult", v, <<x>>, <<>>, ScalarBaseMultCall(pts, v, x))

ScalarMult(v, x, q) ==
    Finish("ScalarMult", v, <<x>>, <<q>>, ScalarMultCall(pts, v, x, q))

MultiScalarMult(v, scalars, points) ==
    Finish("MultiScalarMult", v, scalars, points, MultiScalarMultCall(pts, v, scalars, points))

VarTimeDoubleScalarBaseMult(v, a, A, b) ==
    Finish("VarTimeDoubleScalarBaseMult", v, <<a, b>>, <<A>>,
           VarTimeDoubleScalarBaseMultCall(pts, v, a, A, b))

VarTimeMultiScalarMult(v, scalars, points) ==
    Finish("VarTimeMultiScalarMult", v, scalars, points,
           VarTimeMultiScalarMultCall(pts, v, scalars, points))

Next ==
    \E v \in Obj :
        \/ \E x \in Scalars : ScalarBaseMult(v, x)
        \/ \E x \in Scalars, q \in Obj : ScalarMult(v, x, q)
        \/ \E scalars \in SeqsUpTo(MultiScalars, MaxTerms), points \in SeqsUpTo(Obj, MaxTerms) :
               MultiScalarMult(v, scalars, points)
        \/ \E a \in Scalars, b \in Scalars, A \in Obj : VarTimeDoubleScalarBaseMult(v, a, A, b)
        \/ \E scalars \in SeqsUpTo(MultiScalars, MaxTerms), points \in SeqsUpTo(Obj, MaxTerms) :
               VarTimeMultiScalarMult(v, scalars, points)

Spec == Init /\ [][Next]_vars

\* ------------------------------------------------------ reference arithmetic
\* b^e in Z_GroupOrder.
RECURSIVE PowMod(_, _)
PowMod(b, e) ==
    IF e = 0 THEN 1 % GroupOrder
    ELSE LET h == PowMod(b, e \div 2)
         IN  (h * h * (IF e % 2 = 1 THEN b ELSE 1)) % GroupOrder

\* The value of bytes lo .. hi of scalar s, reduced modulo the group order.
RECURSIVE BytesMod(_, _, _)
BytesMod(s, lo, hi) ==
    IF lo = hi THEN (s[lo] * PowMod(256, lo - 1)) % GroupOrder
    ELSE LET mid == (lo + hi) \div 2
         IN  (BytesMod(s, lo, mid) + BytesMod(s, mid + 1, hi)) % GroupOrder

\* x mod GroupOrder for each scalar x in use: x * g is the element
\* (ValueOf[x] * g) mod GroupOrder of the group.
ValueOf == [s \in Scalars |-> BytesMod(s, 1, 32)]

\* The point (in extended coordinates) that is g added to itself x times.
Multiple(x, q) == Elem("P3", TRUE, ValueOf[x] * q.g)

\* The group sum of two points in extended coordinates.
GroupAdd(p, q) == Point_fromP1xP1(Add(p, Cached_FromP3(q)))

\* The sum of scalars[i] * points[i] over terms 1 .. n, points by value.
RECURSIVE SumOfTerms(_, _, _)
SumOfTerms(scalars, values, n) ==
    IF n = 0 THEN NewIdentityPoint
    ELSE GroupAdd(SumOfTerms(scalars, values, n - 1), Multiple(scalars[n], values[n]))

\* How often step s occurs in a sequence of steps.
Count(tr, s) == Cardinality({k \in 1..Len(tr) : tr[k] = s})

\* A receiver that is none of the caller's objects and was never assigned.
Fresh == Cardinality(Obj) + 1
WithFresh(heap) == (Fresh :> ZeroPoint) @@ heap

Returned(op) == call.op = op /\ err = "none"

\* -------------------------------------------------------------------- claims
\* C1: MultiScalarMult(scalars, points), given equally long slices and
\* initialized points, leaves the receiver at the sum of scalars[i] * points[i]
\* (the identity for empty slices), whatever the receiver held before.
C1_MultiScalarMultIsTheSum ==
    Returned("MultiScalarMult") =>
        pts[call.v] = SumOfTerms(call.scalars, Deref(call.pre, call.points), Len(call.points))

\* C2: ScalarMult(x, q), given an initialized q, leaves the receiver at q added
\* to itself x times whatever the receiver held before; ScalarMult(0, q) is the
\* identity, ScalarMult(1, q) is q, ScalarMult(2, B) is B doubled; every other
\* point object is left alone.
C2_ScalarMultIsTheMultiple ==
    Returned("ScalarMult") =>
        LET x == call.scalars[1]
            q == call.pre[call.points[1]]
        IN  /\ pts[call.v] = Multiple(x, q)
            /\ x = ScalarOf(0, 0, 0) => pts[call.v] = NewIdentityPoint
            /\ x = ScalarOf(1, 0, 0) => pts[call.v] = q
            /\ (x = ScalarOf(2, 0, 0) /\ q = NewGeneratorPoint)
                   => pts[call.v] = DoublePoint(NewGeneratorPoint)
            /\ \A o \in Obj \ {call.v} : pts[o] = call.pre[o]

\* ScalarMult(2, B) into a never-assigned receiver returned B doubled.
C2_Witness ==
    /\ Returned("ScalarMult")
    /\ call.scalars[1] = ScalarOf(2, 0, 0)
    /\ call.pre[call.points[1]] = NewGeneratorPoint
    /\ call.pre[call.v] = ZeroPoint
    /\ pts[call.v] = Elem("P3", TRUE, 2)

\* C3: ScalarBaseMult(x) is ScalarMult(x, B): the receiver ends at the value
\* ScalarMult leaves when handed the generator, and a ScalarMult call on a
\* point holding the generator ends at the value ScalarBaseMult leaves.
C3_BaseMultIsScalarMultOfGenerator ==
    /\ Returned("ScalarBaseMult") =>
           pts[call.v] =
               ScalarMultRun((Fresh :> NewGeneratorPoint) @@ call.pre, call.v,
                             call.scalars[1], Fresh).heap[call.v]
    /\ (Returned("ScalarMult") /\ call.pre[call.points[1]] = NewGeneratorPoint) =>
           pts[call.v] = ScalarBaseMultRun(call.pre, call.v, call.scalars[1]).heap[call.v]

\* ScalarBaseMult returned for a scalar with digits of both signs at odd and
\* even positions.
C3_Witness ==
    /\ Returned("ScalarBaseMult")
    /\ call.scalars[1] = ScalarOf(181, 93, 11)
    /\ pts[call.v] = Elem("P3", TRUE, ValueOf[ScalarOf(181, 93, 11)])
    /\ pts[call.v] # NewIdentityPoint

\* C4: VarTimeDoubleScalarBaseMult(a, A, b), given an initialized A, leaves
\* the receiver at the group sum of what ScalarMult(a, A) and ScalarBaseMult(b)
\* compute, that is a * A + b * B, also when a or b is zero and whatever the
\* receiver held before; every other point object is left alone.
C4_DoubleScalarBaseMultIsTheSum ==
    Returned("VarTimeDoubleScalarBaseMult") =>
        LET a == call.scalars[1]
            b == call.scalars[2]
            A == call.points[1]
            h == WithFresh(call.pre)
        IN  /\ pts[call.v] = GroupAdd(ScalarMultRun(h, Fresh, a, A).heap[Fresh],
                                      ScalarBaseMultRun(h, Fresh, b).heap[Fresh])
            /\ pts[call.v] = Elem("P3", TRUE, ValueOf[a] * call.pre[A].g + ValueOf[b])
            /\ \A o \in Obj \ {call.v} : pts[o] = call.pre[o]

\* VarTimeDoubleScalarBaseMult returned a * A + b * B for multi-byte a and b,
\* A twice the generator and a never-assigned receiver.
C4_Witness ==
    /\ Returned("VarTimeDoubleScalarBaseMult")
    /\ call.scalars = <<ScalarOf(181, 93, 11), ScalarOf(255, 255, 15)>>
    /\ call.pre[call.points[1]] = Elem("P3", TRUE, 2)
    /\ call.pre[call.v] = ZeroPoint
    /\ pts[call.v] = Elem("P3", TRUE, 2 * ValueOf[ScalarOf(181, 93, 11)]
                                       + ValueOf[ScalarOf(255, 255, 15)])
    /\ pts[call.v] # NewIdentityPoint

\* C5: VarTimeMultiScalarMult(scalars, points), given equally long slices and
\* initialized points, leaves the receiver at the sum of scalars[i] * points[i]
\* (the identity for empty slices), whatever the receiver held before; every
\* other point object is left alone.
C5_VarTimeMultiScalarMultIsTheSum ==
    Returned("VarTimeMultiScalarMult") =>
        /\ pts[call.v] = SumOfTerms(call.scalars, Deref(call.pre, call.points),
                                    Len(call.points))
        /\ Len(call.points) = 0 => pts[call.v] = NewIdentityPoint
        /\ \A o \in Obj \ {call.v} : pts[o] = call.pre[o]

\* VarTimeMultiScalarMult returned the sum of two terms with nonzero scalars
\* and distinct points, and the sum is not the identity.
C5_Witness ==
    /\ Returned("VarTimeMultiScalarMult")
    /\ call.scalars = <<ScalarOf(181, 93, 11), ScalarOf(181, 93, 11)>>
    /\ Len(call.points) = 2
    /\ call.pre[call.points[1]] = Elem("P3", TRUE, 1)
    /\ call.pre[call.points[2]] = Elem("P3", TRUE, 2)
    /\ pts[call.v] = Elem("P3", TRUE, 3 * ValueOf[ScalarOf(181, 93, 11)])
    /\ pts[call.v] # NewIdentityPoint

\* C6: MultiScalarMult and VarTimeMultiScalarMult, handed slices of different
\* lengths, fail with LengthMismatch (also when a supplied point was never
\* assigned) before any table or digit sequence is built, and change no point.
C6_LengthMismatchComesFirst ==
    (/\ call.op \in {"MultiScalarMult", "VarTimeMultiScalarMult"}
     /\ Len(call.scalars) # Len(call.points)) =>
        /\ err = "LengthMismatch"
        /\ trace = <<>>
        /\ pts = call.pre

\* MultiScalarMult failed with LengthMismatch although one of its points was
\* never assigned.
C6_Witness ==
    /\ call.op = "MultiScalarMult"
    /\ Len(call.scalars) # Len(call.points)
    /\ \E i \in 1..Len(call.points) : call.pre[call.points[i]] = ZeroPoint
    /\ err = "LengthMismatch"

\* C7: ScalarMult, VarTimeDoubleScalarBaseMult and, for equally long slices,
\* MultiScalarMult and VarTimeMultiScalarMult fail with UninitializedPoint
\* exactly when some supplied point was never assigned, whatever the scalars
\* and the other points are; a failed call does no step and changes no point.
C7_UninitializedPointIffSentinel ==
    (/\ call.op \in {"ScalarMult", "VarTimeDoubleScalarBaseMult",
                     "MultiScalarMult", "VarTimeMultiScalarMult"}
     /\ call.op \in {"MultiScalarMult", "VarTimeMultiScalarMult"}
            => Len(call.scalars) = Len(call.points)) =>
        /\ err = "UninitializedPoint"
               <=> \E i \in 1..Len(call.points) : call.pre[call.points[i]] = ZeroPoint
        /\ err = "UninitializedPoint" => (pts = call.pre /\ trace = <<>>)

\* MultiScalarMult failed with UninitializedPoint for two points of which one
\* was valid and the other never assigned.
C7_Witness ==
    /\ call.op = "MultiScalarMult"
    /\ Len(call.scalars) = 2
    /\ Len(call.points) = 2
    /\ call.pre[call.points[1]] = NewGeneratorPoint
    /\ call.pre[call.points[2]] = ZeroPoint
    /\ err = "UninitializedPoint"
    /\ pts = call.pre

\* The steps of a constant-time operation with n terms, as a function of the
\* operation and n alone.
SelAdd == <<"sel", "add">>
Dbl4 == <<"dbl", "dbl", "dbl", "dbl">>
ScheduleOf(op, n) ==
    IF op = "ScalarBaseMult"
    THEN <<"dig">> \o Times(SelAdd, NumDigits \div 2) \o Dbl4
                   \o Times(SelAdd, NumDigits \div 2)
    ELSE IF op = "ScalarMult"
    THEN <<"tbl", "dig">> \o SelAdd \o Times(Dbl4 \o SelAdd, NumDigits - 1)
    ELSE Times(<<"tbl">>, n) \o Times(<<"dig">>, n) \o Times(SelAdd, n)
             \o Times(Dbl4 \o Times(SelAdd, n), NumDigits - 1)

\* C8: a returned ScalarBaseMult, ScalarMult or MultiScalarMult performed a
\* sequence of table selections, additions and doublings fixed by the operation
\* and the number of terms, the same for every value of the scalars, the points
\* and the receiver; for ScalarMult it holds 63 groups of four doublings and
\* 64 additions, and no subtraction occurs in any of the three.
C8_ConstantTimeSchedule ==
    (/\ call.op \in {"ScalarBaseMult", "ScalarMult", "MultiScalarMult"}
     /\ err = "none") =>
        /\ trace = ScheduleOf(call.op, Len(call.points))
        /\ call.op = "ScalarMult" =>
               /\ Count(trace, "dbl") = 63 * 4
               /\ Count(trace, "add") = 64
               /\ Count(trace, "sel") = 64

\* ScalarMult by zero returned after the full schedule, every digit being 0.
C8_Witness ==
    /\ Returned("ScalarMult")
    /\ call.scalars[1] = ScalarOf(0, 0, 0)
    /\ Len(trace) = 2 + 2 + 63 * 6
    /\ pts[call.v] = NewIdentityPoint

\* The highest position at which the width-5 NAF of a or the width-8 NAF of b
\* is nonzero, -1 when both are zero everywhere.
HighestNonzero(a, b) ==
    LET nz == {i \in 0..(NafLen - 1) : Naf5Of[a][i] # 0 \/ Naf8Of[b][i] # 0}
    IN  IF nz = {} THEN -1 ELSE CHOOSE i \in nz : \A k \in nz : k <= i

\* C9: VarTimeDoubleScalarBaseMult starts its doubling loop at the highest
\* position h where either NAF is nonzero and so performs exactly h + 1
\* doublings, none when both NAFs are zero everywhere.
C9_DoublingsStartAtHighestNonzero ==
    Returned("VarTimeDoubleScalarBaseMult") =>
        Count(trace, "dbl") = HighestNonzero(call.scalars[1], call.scalars[2]) + 1

\* C10: ScalarMult, VarTimeDoubleScalarBaseMult and VarTimeMultiScalarMult
\* called with the receiver being one of the point arguments leave the
\* receiver at the value the same call leaves in a receiver that is a separate
\* object.
C10_AliasedReceiverSameResult ==
    (/\ call.op \in {"ScalarMult", "VarTimeDoubleScalarBaseMult", "VarTimeMultiScalarMult"}
     /\ err = "none"
     /\ \E i \in 1..Len(call.points) : call.points[i] = call.v) =>
        LET h == WithFresh(call.pre)
            apart ==
                IF call.op = "ScalarMult"
                THEN ScalarMultRun(h, Fresh, call.scalars[1], call.points[1])
                ELSE IF call.op = "VarTimeDoubleScalarBaseMult"
                THEN VarTimeDoubleScalarBaseMultRun(h, Fresh, call.scalars[1],
                                                    call.points[1], call.scalars[2])
                ELSE VarTimeMultiScalarMultRun(h, Fresh, call.scalars, call.points)
        IN  /\ pts[call.v] = apart.heap[Fresh]
            /\ \A o \in Obj \ {call.v} : pts[o] = apart.heap[o]

\* ScalarMult of a point into itself returned the multiple of its old value,
\* which is neither the identity nor the old value.
C10_Witness ==
    /\ Returned("ScalarMult")
    /\ call.points[1] = call.v
    /\ call.scalars[1] = ScalarOf(181, 93, 11)
    /\ call.pre[call.v] = Elem("P3", TRUE, 2)
    /\ pts[call.v] = Elem("P3", TRUE, 2 * ValueOf[ScalarOf(181, 93, 11)])
    /\ pts[call.v] # call.pre[call.v]
    /\ pts[call.v] # NewIdentityPoint
====
